---- MODULE Spec2Model ----
(***************************************************************************)
(* A model of convert_normals_inplace.py: discovery of normal-map files,   *)
(* the per-file green-channel flip (Pillow path and OpenCV EXR path), the   *)
(* output-path rule and the batch loop of main().                           *)
(*                                                                         *)
(* Paths and file names are TLA+ strings; a character of a string s is      *)
(* SubSeq(s, i, i).                                                         *)
(***************************************************************************)
EXTENDS Integers, Sequences, FiniteSets, TLC

VARIABLES
    pc,          \* position of the run: "main", "loop", "nofiles", "done", "crashed",
                 \* or "image" / "flip" / "exr" for the pure-function specifications
    in_path,     \* args.input
    suffix,      \* args.suffix
    exr_negpos,  \* args.exr_negpos
    has_cv2,     \* _HAS_CV2
    tree,        \* the files on disk when the run starts (set of paths)
    files,       \* main's list `files`
    idx,         \* 1-based position of the for-loop over files
    calls,       \* the paths passed to convert_image_inplace, in call order
    writes,      \* the files written by the run, in order: [src, dst, data]
    last         \* what the last conversion did (its buffers and outcome)

vars == <<pc, in_path, suffix, exr_negpos, has_cv2, tree, files, idx, calls, writes, last>>

None == "<None>"
Raised == "<raised>"

-----------------------------------------------------------------------------
(* Strings: str.lower(), `sub in s`, and pathlib's name / suffix / stem /   *)
(* with_name on POSIX paths.                                                *)

Chr(s, i) == SubSeq(s, i, i)

UpperAZ == "ABCDEFGHIJKLMNOPQRSTUVWXYZ"
LowerAZ == "abcdefghijklmnopqrstuvwxyz"

\* the lower-case letter of every upper-case letter
LowerOf == [c \in {Chr(UpperAZ, k) : k \in 1..Len(UpperAZ)} |->
               Chr(LowerAZ, CHOOSE k \in 1..Len(UpperAZ) : Chr(UpperAZ, k) = c)]

LowerChr(c) == IF c \in DOMAIN LowerOf THEN LowerOf[c] ELSE c

RECURSIVE Lower(_)
Lower(s) == IF s = "" THEN "" ELSE LowerChr(Chr(s, 1)) \o Lower(SubSeq(s, 2, Len(s)))

\* Python's `sub in s`
Contains(s, sub) ==
    \E i \in 1..(Len(s) - Len(sub) + 1) : SubSeq(s, i, i + Len(sub) - 1) = sub

\* the last position of the character c in the first i characters of s, 0
\* when absent
RECURSIVE RFindFrom(_, _, _)
RFindFrom(s, c, i) ==
    IF i = 0 THEN 0
    ELSE IF Chr(s, i) = c THEN i
    ELSE RFindFrom(s, c, i - 1)

\* s.rfind(c): the last position of the character c in s, 0 when absent
\* (Python's -1, shifted to 1-based positions)
RFind(s, c) == RFindFrom(s, c, Len(s))

\* PurePath.name: the last component
PathName(p) == SubSeq(p, RFind(p, "/") + 1, Len(p))

\* PurePath.parent, as the text before the last separator ("" for a bare name)
PathParent(p) == SubSeq(p, 1, RFind(p, "/") - 1)

\* PurePath.suffix: the text from the last dot of the name, unless that dot is
\* the first or the last character of the name
PathSuffix(p) ==
    LET name == PathName(p)
        i    == RFind(name, ".")
    IN  IF 1 < i /\ i < Len(name) THEN SubSeq(name, i, Len(name)) ELSE ""

\* PurePath.stem: the name without its suffix
PathStem(p) ==
    LET name == PathName(p)
        i    == RFind(name, ".")
    IN  IF 1 < i /\ i < Len(name) THEN SubSeq(name, 1, i - 1) ELSE name

\* Path(root) / f
JoinPath(dir, name) == IF dir = "" THEN name ELSE dir \o "/" \o name

\* PurePath.with_name(name): ValueError for an empty name, a name holding a
\* separator, or "."; otherwise the path with its last component replaced
WithName(p, name) ==
    IF name = "" \/ name = "." \/ Contains(name, "/")
    THEN Raised
    ELSE JoinPath(PathParent(p), name)

-----------------------------------------------------------------------------
(* Discovery: VALID_EXTS, looks_like_normal_map and the scan of main().     *)

VALID_EXTS == {".png", ".jpg", ".jpeg", ".tga", ".tif", ".tiff", ".bmp", ".webp", ".exr"}

\* faulty variant: either word is enough
looks_like_normal_map_either(filename) ==
    LET n == Lower(filename)
    IN  Contains(n, "normal") \/ Contains(n, "map")

looks_like_normal_map(filename) ==
    LET n == Lower(filename)
    IN  Contains(n, "normal") /\ Contains(n, "map")

\* the test of lines 121 and 127
Selected(p) == Lower(PathSuffix(p)) \in VALID_EXTS /\ looks_like_normal_map(PathName(p))

\* in_path.is_file()
IsFile(p) == p \in tree

\* the files os.walk(top) visits: every file below top, at any depth
WalkFiles(top) ==
    {p \in tree : Len(p) > Len(top) + 1 /\ SubSeq(p, 1, Len(top) + 1) = top \o "/"}

\* dir a is a proper ancestor of dir b
IsAncestorDir(a, b) == Len(b) > Len(a) + 1 /\ SubSeq(b, 1, Len(a) + 1) = a \o "/"

\* os.walk is top-down: the files of one directory are listed together, in an
\* order the OS chooses, and before the files of its subdirectories
WalkOrder(seq) ==
    /\ \A i, j \in 1..Len(seq) : i < j =>
           ~IsAncestorDir(PathParent(seq[j]), PathParent(seq[i]))
    /\ \A i, j, k \in 1..Len(seq) :
           (i < k /\ k < j /\ PathParent(seq[i]) = PathParent(seq[j]))
               => PathParent(seq[k]) = PathParent(seq[i])

\* the sequences without repetition over the set S
Orderings(S) ==
    {seq \in [1..Cardinality(S) -> S] : \A i, j \in 1..Cardinality(S) : seq[i] = seq[j] => i = j}

\* the values `files` may have after lines 119-128
Discovered ==
    IF IsFile(in_path)
    THEN {IF Selected(in_path) THEN <<in_path>> ELSE <<>>}
    ELSE {seq \in Orderings({p \in WalkFiles(in_path) : Selected(p)}) : WalkOrder(seq)}

-----------------------------------------------------------------------------
(* The 8-bit path: Pillow's decoded image, convert('RGBA'), the flip on the *)
(* uint8 array, the choice of the output mode and _save_with_params.        *)
(*                                                                         *)
(* An image is [mode, transparency, palette, px]: px is the sequence of its *)
(* pixels in the native mode (RGB <<r,g,b>>, RGBA <<r,g,b,a>>, L <<l>>,     *)
(* LA <<l,a>>, P <<index>>, PA <<index,a>>); transparency is <<>> when      *)
(* src.info has no 'transparency' entry, else <<key>> with the transparent  *)
(* colour (RGB), grey level (L) or palette index (P); palette maps an       *)
(* index + 1 to its RGB entry.                                              *)

_has_alpha_mode(mode) == mode \in {"RGBA", "LA", "PA"}

\* 'transparency' in src.info
HasTransparency(img) == img.transparency # <<>>

\* one pixel of src.convert('RGBA')
PixelToRGBA(img, p) ==
    LET keyed(v) == IF img.transparency = <<v>> THEN 0 ELSE 255
    IN  CASE img.mode = "RGBA" -> p
          [] img.mode = "RGB"  -> <<p[1], p[2], p[3], keyed(p)>>
          [] img.mode = "L"    -> <<p[1], p[1], p[1], keyed(p[1])>>
          [] img.mode = "LA"   -> <<p[1], p[1], p[1], p[2]>>
          [] img.mode = "P"    -> img.palette[p[1] + 1] \o <<keyed(p[1])>>
          [] img.mode = "PA"   -> img.palette[p[1] + 1] \o <<p[2]>>

\* img = src.convert('RGBA'); arr = np.array(img, dtype=np.uint8)
ToRGBA(img) == [i \in 1..Len(img.px) |-> PixelToRGBA(img, img.px[i])]

\* faulty variant: an off-by-one complement
FlipRaw_256(g) == 256 - g

\* 255 - g before it is stored back into the uint8 array
FlipRaw(g) == 255 - g

\* the uint8 value stored for 255 - g
FlipG(g) == FlipRaw(g) % 256

\* faulty variant: the flip applied to channel 0
FlipGreen_red(arr) == [i \in 1..Len(arr) |-> [arr[i] EXCEPT ![1] = (255 - arr[i][1]) % 256]]

\* arr[..., 1] = 255 - arr[..., 1]
FlipGreen(arr) == [i \in 1..Len(arr) |-> [arr[i] EXCEPT ![2] = FlipG(arr[i][2])]]

\* faulty variant: the alpha decision taken from the working buffer, which always has
\* four channels
Reduce_from_working(img, arr) ==
    IF \A i \in 1..Len(arr) : Len(arr[i]) = 4
    THEN [mode |-> "RGBA", px |-> arr]
    ELSE [mode |-> "RGB", px |-> [i \in 1..Len(arr) |-> SubSeq(arr[i], 1, 3)]]

\* lines 101-104: RGBA when the source mode has alpha or declares transparency,
\* else the first three channels
Reduce(img, arr) ==
    IF _has_alpha_mode(img.mode) \/ HasTransparency(img)
    THEN [mode |-> "RGBA", px |-> arr]
    ELSE [mode |-> "RGB", px |-> [i \in 1..Len(arr) |-> SubSeq(arr[i], 1, 3)]]

\* Image.convert between RGB and RGBA: drop the alpha, or add an opaque one
ConvertMode(out, mode) ==
    IF out.mode = mode THEN out
    ELSE IF mode = "RGB"
         THEN [mode |-> "RGB", px |-> [i \in 1..Len(out.px) |-> SubSeq(out.px[i], 1, 3)]]
         ELSE [mode |-> "RGBA", px |-> [i \in 1..Len(out.px) |-> out.px[i] \o <<255>>]]

\* _save_with_params up to the call of img.save: the image handed to the
\* encoder and the keyword options
SaveRequest(out, path, orig_mode) ==
    LET ext == Lower(PathSuffix(path))
    IN  IF ext \in {".jpg", ".jpeg"}
        THEN [img    |-> IF out.mode # "RGB" THEN ConvertMode(out, "RGB") ELSE out,
              params |-> {"quality", "subsampling", "optimize"}]
        ELSE IF ext = ".tga"
        THEN [img    |-> IF out.mode \notin {"RGB", "RGBA"}
                         THEN ConvertMode(out, IF _has_alpha_mode(orig_mode) THEN "RGBA" ELSE "RGB")
                         ELSE out,
              params |-> {}]
        ELSE IF ext \in {".tif", ".tiff"}
        THEN [img |-> out, params |-> {"compression"}]
        ELSE [img |-> out, params |-> {}]

\* lines 95-106 on a decoded image: the buffers and the save request
StandardPipeline(img, out_path) ==
    LET work == ToRGBA(img)
        arr  == FlipGreen(work)
        out  == Reduce(img, arr)
    IN  [work |-> work, arr |-> arr, req |-> SaveRequest(out, out_path, img.mode)]

\* faulty variant: the lower-cased `ext` of line 87 used for the output name
OutPath_lower_ext(path_in, sfx) ==
    WithName(path_in, PathStem(path_in) \o sfx \o Lower(PathSuffix(path_in)))

\* lines 87-89: the output path, or Raised when with_name rejects the name
OutPath(path_in, sfx) == WithName(path_in, PathStem(path_in) \o sfx \o PathSuffix(path_in))

-----------------------------------------------------------------------------
(* The EXR path computes on numpy float32 arrays.  A float32 is modelled    *)
(* bit-exactly as [k, s, m, e]: k = "num" is the finite value               *)
(* (-1)^s * m * 2^e with m = 0 (zero, kept as +0) or 2^23 <= m < 2^24, or   *)
(* m < 2^23 at e = -149 (subnormal); k = "inf" is the infinity of sign s;   *)
(* k = "nan" is a NaN.  Every operation rounds to nearest, ties to even.    *)

Pow2(n) == 2 ^ n

F32(s, m, e) == [k |-> "num", s |-> s, m |-> m, e |-> e]
F32Zero == F32(0, 0, 0)
F32Inf(s) == [k |-> "inf", s |-> s, m |-> 0, e |-> 0]
F32NaN == [k |-> "nan", s |-> 0, m |-> 0, e |-> 0]
F32One == F32(0, 8388608, -23)
F32Half == F32(0, 8388608, -24)

\* the number of bits of n (0 for 0), n < 2^30
BitLen(n) == CHOOSE L \in 0..30 : (L = 0 /\ n = 0) \/ (L > 0 /\ Pow2(L - 1) <= n /\ n < Pow2(L))

\* n / 2^d rounded down, with the last bit set when anything was cut off
ShiftSticky(n, d) ==
    IF d = 0 THEN n
    ELSE IF d >= 30 THEN (IF n = 0 THEN 0 ELSE 1)
    ELSE LET q == n \div Pow2(d)
         IN  IF n % Pow2(d) = 0 \/ q % 2 = 1 THEN q ELSE q + 1

\* the float32 nearest to (-1)^s * n * 2^e (n < 2^30; an odd n may stand for any
\* value strictly between n - 1 and n + 1, which rounds as n does whenever at
\* least two bits are cut)
F32Round(s, n, e) ==
    IF n = 0 THEN F32Zero
    ELSE LET L     == BitLen(n)
             cut   == IF L - 24 > -149 - e THEN L - 24 ELSE -149 - e
         IN  IF cut <= 0
             THEN \* exact: normalise to a 24-bit significand, not below 2^-149
                  LET up == IF e - (24 - L) >= -149 THEN 24 - L ELSE e + 149
                  IN  IF e - up > 104 THEN F32Inf(s) ELSE F32(s, n * Pow2(up), e - up)
             ELSE IF cut >= 30 THEN F32Zero
             ELSE LET q    == n \div Pow2(cut)
                      r    == n % Pow2(cut)
                      half == Pow2(cut - 1)
                      m1   == IF r > half \/ (r = half /\ q % 2 = 1) THEN q + 1 ELSE q
                      m2   == IF m1 = 16777216 THEN 8388608 ELSE m1
                      e2   == IF m1 = 16777216 THEN e + cut + 1 ELSE e + cut
                  IN  IF m2 = 0 THEN F32Zero
                      ELSE IF e2 > 104 THEN F32Inf(s)
                      ELSE F32(s, m2, e2)

\* -x
F32Neg(x) ==
    IF x.k = "nan" \/ (x.k = "num" /\ x.m = 0) THEN x ELSE [x EXCEPT !.s = 1 - x.s]

\* x * 2^d for d in {1, -1}: the products x * 2.0 and x * 0.5
F32Scale(x, d) ==
    IF x.k # "num" THEN x
    ELSE F32Round(x.s, x.m, x.e + d)

\* x + y
F32Add(x, y) ==
    IF x.k = "nan" \/ y.k = "nan" THEN F32NaN
    ELSE IF x.k = "inf" /\ y.k = "inf" THEN (IF x.s = y.s THEN x ELSE F32NaN)
    ELSE IF x.k = "inf" THEN x
    ELSE IF y.k = "inf" THEN y
    ELSE IF x.m = 0 THEN y
    ELSE IF y.m = 0 THEN x
    ELSE LET hi == IF x.e >= y.e THEN x ELSE y
             lo == IF x.e >= y.e THEN y ELSE x
             A  == hi.m * 8
             B  == ShiftSticky(lo.m * 8, hi.e - lo.e)
         IN  IF hi.s = lo.s THEN F32Round(hi.s, A + B, hi.e - 3)
             ELSE IF A >= B THEN F32Round(hi.s, A - B, hi.e - 3)
             ELSE F32Round(lo.s, B - A, hi.e - 3)

\* x - y
F32Sub(x, y) == F32Add(x, F32Neg(y))

\* x < y on values that are not NaN
F32Less(x, y) ==
    LET neg(v) == v.s = 1 /\ (v.k = "inf" \/ v.m # 0)
        \* |v| < |w| for finite v, w
        magLess(v, w) ==
            IF v.m = 0 THEN w.m # 0
            ELSE IF w.m = 0 THEN FALSE
            ELSE LET lv == BitLen(v.m) + v.e
                     lw == BitLen(w.m) + w.e
                 IN  lv < lw \/ (lv = lw /\ v.m * Pow2(24 - BitLen(v.m)) < w.m * Pow2(24 - BitLen(w.m)))
        absLess(v, w) ==
            IF v.k = "inf" THEN FALSE
            ELSE IF w.k = "inf" THEN TRUE
            ELSE magLess(v, w)
    IN  IF neg(x) /\ ~neg(y) THEN TRUE
        ELSE IF ~neg(x) /\ neg(y) THEN FALSE
        ELSE IF neg(x) THEN absLess(y, x)
        ELSE absLess(x, y)

\* np.clip(x, lo, hi) = minimum(maximum(x, lo), hi); a NaN passes through
F32Clip(x, lo, hi) ==
    IF x.k = "nan" THEN x
    ELSE IF F32Less(x, lo) THEN lo
    ELSE IF F32Less(hi, x) THEN hi
    ELSE x

\* lines 71-77 on one sample of the green plane
ExrGreen(g, negpos) ==
    LET t == IF negpos
             THEN F32Add(F32Scale(F32Neg(F32Sub(F32Scale(g, 1), F32One)), -1), F32Half)
             ELSE F32Sub(F32One, g)
    IN  F32Clip(t, F32Zero, F32One)

\* lines 69-78 on a buffer: a sequence of pixels, each a sequence of samples in
\* OpenCV's order (blue, green, red[, alpha])
ExrTransform(arr, negpos) ==
    [i \in 1..Len(arr) |-> [arr[i] EXCEPT ![2] = ExrGreen(arr[i][2], negpos)]]

-----------------------------------------------------------------------------
(* The inputs of the batch run.                                            *)

MaxFiles == 2        \* files on disk when the run starts
MaxPixels == 1       \* pixels of a decoded buffer

\* the paths a tree is drawn from: matching and non-matching names, upper-case
\* letters, two nesting levels, every route (Pillow, EXR, jpg) and an output
\* name of an earlier run
Candidates ==
    { "t/rock_NORMAL_Map.png", "t/x_normal_map.png", "t/x_normal_map_DX.png",
      "t/rock_normal.png", "t/j_normalmap.jpg", "t/x_normal_map.txt",
      "t/s/rock_normalmap.tga", "t/s/map_normal.EXR", "t/s/n_normal_map.exr",
      "t/s/rock_diffuse.png" }

Trees == {T \in SUBSET Candidates : Cardinality(T) <= MaxFiles}

\* args.input: a directory, a nested directory, a file, a path that is not there
InPaths == {"t", "t/s", "t/x_normal_map.png", "t/rock_normal.png", "t/s/n_normal_map.exr"}

\* args.suffix: the default, the empty one, one with a dot, one with a separator
Suffixes == {"_DX", "", ".v2", "/o"}

Palette2 == << <<128, 200, 64>>, <<10, 0, 250>> >>

Image(mode, transparency, px) ==
    [mode |-> mode, transparency |-> transparency, palette |-> Palette2, px |-> px]

\* what Image.open may decode in the batch run
BatchImages ==
    { Image("RGBA", <<>>, << <<128, 200, 64, 255>> >>),
      Image("RGB", <<>>, << <<128, 200, 64>> >>),
      Image("P", <<0>>, << <<0>> >>) }

\* what cv2.imread may return in the batch run: BGR, BGRA, and a buffer with
\* fewer than three samples per pixel (arr.ndim != 3 or arr.shape[2] < 3)
BatchExrArrays ==
    { << <<F32Half, F32(0, 12582912, -24), F32One>> >>,
      << <<F32Half, F32(1, 8388608, -24), F32One, F32Half>> >>,
      << <<F32Half, F32Half>> >> }

Conversion(route, f, out, outcome, encodes, src, dst) ==
    [route |-> route, path_in |-> f, out_path |-> out, outcome |-> outcome,
     encodes |-> encodes, src |-> src, dst |-> dst]

NoConversion == Conversion("none", None, None, "none", 0, <<>>, <<>>)

-----------------------------------------------------------------------------
(* main(): discovery, then the loop over files.                            *)

Init ==
    /\ pc = "main"
    /\ in_path \in InPaths
    /\ suffix \in Suffixes
    /\ exr_negpos \in BOOLEAN
    /\ has_cv2 \in BOOLEAN
    /\ tree \in Trees
    /\ files = <<>>
    /\ idx = 1
    /\ calls = <<>>
    /\ writes = <<>>
    /\ last = NoConversion

\* lines 117-134: build `files`; return when it is empty
Discover ==
    /\ pc = "main"
    /\ \E seq \in Discovered :
           /\ files' = seq
           /\ pc' = IF seq = <<>> THEN "nofiles" ELSE "loop"
    /\ UNCHANGED <<in_path, suffix, exr_negpos, has_cv2, tree, idx, calls, writes, last>>

\* the file at path f was written earlier in this run
WrittenByRun(f) == \E i \in 1..Len(writes) : writes[i].dst = f

\* what the run last wrote to path f
LastWritten(f) ==
    writes[CHOOSE i \in 1..Len(writes) :
               writes[i].dst = f /\ \A j \in (i + 1)..Len(writes) : writes[j].dst # f].data

\* what Image.open(f) may decode: any image for a file the run found on disk;
\* for a file the run wrote, the image it wrote (any RGB image for a lossy
\* jpg/jpeg)
StdDecodes(f) ==
    IF ~WrittenByRun(f) THEN BatchImages
    ELSE IF Lower(PathSuffix(f)) \in {".jpg", ".jpeg"}
    THEN {img \in BatchImages : img.mode = "RGB"}
    ELSE {Image(LastWritten(f).mode, <<>>, LastWritten(f).px)}

\* what cv2.imread(f) may return, likewise
ExrDecodes(f) == IF ~WrittenByRun(f) THEN BatchExrArrays ELSE {LastWritten(f)}

\* convert_image_inplace returned: out_path after a write, None otherwise;
\* lines 137-139, then the next file
Returned(conv, data) ==
    /\ last' = conv
    /\ writes' = IF conv.outcome = "written"
                 THEN Append(writes, [src |-> conv.path_in, dst |-> conv.out_path, data |-> data])
                 ELSE writes
    /\ idx' = idx + 1
    /\ pc' = "loop"

\* convert_image_inplace raised: nothing in main catches it, the process ends
\* with a traceback
Raise(conv) ==
    /\ last' = conv
    /\ UNCHANGED <<writes, idx>>
    /\ pc' = "crashed"

\* _process_exr_cv2(path_in, path_out, exr_negpos), lines 54-84
ProcessExr(f, out) ==
    \/ /\ ~has_cv2
       /\ Returned(Conversion("exr", f, out, "skipped", 0, <<>>, <<>>), <<>>)
    \/ /\ has_cv2
       /\ \/ /\ ~WrittenByRun(f)
             /\ Returned(Conversion("exr", f, out, "unreadable", 0, <<>>, <<>>), <<>>)
          \/ \E arr \in ExrDecodes(f) :
                 IF \E i \in 1..Len(arr) : Len(arr[i]) < 3
                 THEN Returned(Conversion("exr", f, out, "bad_shape", 0, arr, <<>>), <<>>)
                 ELSE \E ok \in BOOLEAN :
                          Returned(Conversion("exr", f, out,
                                              IF ok THEN "written" ELSE "write_failed", 1,
                                              arr, ExrTransform(arr, exr_negpos)),
                                   ExrTransform(arr, exr_negpos))

\* convert_image_inplace on the Pillow path, lines 95-107: Image.open and
\* img.save raise on failure, and img.save is called once
ProcessStandard(f, out) ==
    \/ /\ ~WrittenByRun(f)
       /\ Raise(Conversion("std", f, out, "decode_error", 0, <<>>, <<>>))
    \/ \E img \in StdDecodes(f) :
           LET r == StandardPipeline(img, out)
           IN  \/ Returned(Conversion("std", f, out, "written", 1, img, r), r.req.img)
               \/ Raise(Conversion("std", f, out, "encode_error", 1, img, r))

\* one iteration of the loop of lines 135-139: convert_image_inplace(f, ...)
Convert ==
    /\ pc = "loop"
    /\ idx <= Len(files)
    /\ LET f   == files[idx]
           out == OutPath(f, suffix)
       IN  /\ calls' = Append(calls, f)
           /\ IF out = Raised
              THEN Raise(Conversion("none", f, out, "invalid_name", 0, <<>>, <<>>))
              ELSE IF Lower(PathSuffix(f)) = ".exr"
              THEN ProcessExr(f, out)
              ELSE ProcessStandard(f, out)
    /\ UNCHANGED <<in_path, suffix, exr_negpos, has_cv2, tree, files>>

\* line 140: the loop is over, "Done."
Finish ==
    /\ pc = "loop"
    /\ idx > Len(files)
    /\ pc' = "done"
    /\ UNCHANGED <<in_path, suffix, exr_negpos, has_cv2, tree, files, idx, calls, writes, last>>

Next == Discover \/ Convert \/ Finish

Spec == Init /\ [][Next]_vars

-----------------------------------------------------------------------------
(* The Pillow path on its own: one decoded image of every mode, run through *)
(* lines 95-106 for every supported 8-bit extension.                        *)

Greens == {0, 55, 200, 255}
Alphas == {0, 77, 255}
Greys == {0, 200, 255}

NativePixels(mode) ==
    CASE mode = "RGB"  -> {<<128, g, 64>> : g \in Greens}
      [] mode = "RGBA" -> {<<128, g, 64, a>> : g \in Greens, a \in Alphas}
      [] mode = "L"    -> {<<l>> : l \in Greys}
      [] mode = "LA"   -> {<<l, a>> : l \in Greys, a \in Alphas}
      [] mode = "P"    -> {<<i>> : i \in {0, 1}}
      [] mode = "PA"   -> {<<i, a>> : i \in {0, 1}, a \in Alphas}

\* the 'transparency' entry a file of the mode may declare
TransparencyKey(mode) ==
    CASE mode \in {"RGB", "RGBA"} -> <<128, 200, 64>>
      [] mode \in {"L", "LA"}     -> 200
      [] mode \in {"P", "PA"}     -> 0

Modes == {"RGB", "RGBA", "L", "LA", "P", "PA"}

PixelSeqs(mode) == UNION {[1..n -> NativePixels(mode)] : n \in 1..MaxPixels}

Images ==
    UNION {{Image(mode, t, px) : t \in {<<>>, <<TransparencyKey(mode)>>}, px \in PixelSeqs(mode)}
           : mode \in Modes}

ImagePaths ==
    {"t/a_normal_map" \o e : e \in {".png", ".jpg", ".JPEG", ".tga", ".tif", ".tiff", ".bmp", ".webp"}}

InitImage ==
    /\ pc = "image"
    /\ in_path \in ImagePaths
    /\ suffix \in {"_DX", ""}
    /\ exr_negpos = FALSE
    /\ has_cv2 = TRUE
    /\ tree = {in_path}
    /\ files = <<in_path>>
    /\ idx = 1
    /\ calls = <<>>
    /\ writes = <<>>
    /\ \E img \in Images :
           last = Conversion("std", in_path, OutPath(in_path, suffix), "decoded", 0, img, <<>>)

\* lines 97-106 on the decoded image, up to the call of img.save
ConvertStandard ==
    /\ pc = "image"
    /\ last.outcome = "decoded"
    /\ last' = [last EXCEPT !.outcome = "encoding", !.encodes = 1,
                            !.dst = StandardPipeline(last.src, last.out_path)]
    /\ calls' = Append(calls, last.path_in)
    /\ UNCHANGED <<pc, in_path, suffix, exr_negpos, has_cv2, tree, files, idx, writes>>

NextImage == ConvertStandard

SpecImage == InitImage /\ [][NextImage]_vars

-----------------------------------------------------------------------------
(* The flip of line 99 on its own, applied to a buffer and to its result.   *)

FlipBuffers == {<< <<128, g, 64, 255>> >> : g \in 0..255}

InitFlip ==
    /\ pc = "flip"
    /\ in_path = None
    /\ suffix = "_DX"
    /\ exr_negpos = FALSE
    /\ has_cv2 = TRUE
    /\ tree = {}
    /\ files = <<>>
    /\ idx = 0
    /\ calls = <<>>
    /\ writes = <<>>
    /\ \E buf \in FlipBuffers :
           last = Conversion("flip", None, None, "buffer", 0, buf, buf)

\* arr[..., 1] = 255 - arr[..., 1], on the buffer as it now is; idx counts the
\* flips applied
Flip ==
    /\ pc = "flip"
    /\ idx < 2
    /\ last' = [last EXCEPT !.dst = FlipGreen(last.dst)]
    /\ idx' = idx + 1
    /\ UNCHANGED <<pc, in_path, suffix, exr_negpos, has_cv2, tree, files, calls, writes>>

NextFlip == Flip

SpecFlip == InitFlip /\ [][NextFlip]_vars

-----------------------------------------------------------------------------
(* The EXR transform of lines 69-78 on its own, over float32 samples:       *)
(* in range, out of range, tiny, huge, subnormal, infinite and NaN.         *)

ExrMantissas == {8388608, 12582912, 13661143, 16777215}
ExrExponents == {-149, -48, -29, -24, -23, -22, 104}

ExrGreens ==
    {F32(s, m, e) : s \in {0, 1}, m \in ExrMantissas, e \in ExrExponents}
        \cup {F32Zero, F32Inf(0), F32Inf(1), F32NaN}

\* one pixel in OpenCV's order: blue, green, red and an optional alpha
ExrPixels ==
    {<<F32Half, g, F32One>> : g \in ExrGreens}
        \cup {<<F32Half, g, F32One, F32(0, 12582912, -24)>> : g \in ExrGreens}

ExrArrays == UNION {[1..n -> ExrPixels] : n \in 1..MaxPixels}

InitExr ==
    /\ pc = "exr"
    /\ in_path = "t/s/n_normal_map.exr"
    /\ suffix = "_DX"
    /\ exr_negpos \in BOOLEAN
    /\ has_cv2 = TRUE
    /\ tree = {in_path}
    /\ files = <<in_path>>
    /\ idx = 1
    /\ calls = <<>>
    /\ writes = <<>>
    /\ \E arr \in ExrArrays :
           last = Conversion("exr", in_path, OutPath(in_path, suffix), "decoded", 0, arr, <<>>)

\* lines 69-78 on the decoded buffer, up to the call of cv2.imwrite
TransformExr ==
    /\ pc = "exr"
    /\ last.outcome = "decoded"
    /\ last' = [last EXCEPT !.outcome = "encoding", !.encodes = 1,
                            !.dst = ExrTransform(last.src, exr_negpos)]
    /\ calls' = Append(calls, last.path_in)
    /\ UNCHANGED <<pc, in_path, suffix, exr_negpos, has_cv2, tree, files, idx, writes>>

NextExr == TransformExr

SpecExr == InitExr /\ [][NextExr]_vars

-----------------------------------------------------------------------------
(* The claims.                                                             *)

Range(seq) == {seq[i] : i \in 1..Len(seq)}

\* C1: a decode or encode failure of one file never aborts the batch: after a
\* failed conversion the loop goes on to the files that follow and the run
\* reaches "Done".
C1_FailureNeverAborts ==
    /\ last.outcome \in {"decode_error", "encode_error", "skipped", "unreadable",
                         "bad_shape", "write_failed"}
           => pc \in {"loop", "done"}
    /\ (pc \in {"done", "crashed"} /\ last.outcome # "invalid_name") => calls = files

\* C2: no write of the run goes to the path of a discovered input, and one
\* output is written per successfully converted input.
C2_InputsUntouched ==
    /\ \A i \in 1..Len(writes) : writes[i].dst \notin Range(files)
    /\ \A i, j \in 1..Len(writes) : writes[i].src = writes[j].src => i = j
    /\ \A i \in 1..Len(writes) : writes[i].src \in Range(calls)
    /\ last.outcome = "written" => writes[Len(writes)].src = last.path_in

\* C3: on the standard path a failed encode has been attempted twice before
\* the file is reported as failed; on the EXR path a failed write is attempted
\* once and reported for that file.
C3_RetryOnce ==
    /\ last.outcome = "encode_error" => last.encodes = 2
    /\ last.outcome = "write_failed" => last.encodes = 1 /\ pc \in {"loop", "done"}

\* the alpha of pixel i of a source whose mode carries alpha
SourceAlpha(img, i) == IF img.mode = "RGBA" THEN img.px[i][4] ELSE img.px[i][2]

\* green flipped, red and blue as in the working buffer (and as in an RGB or
\* RGBA source)
GreenOnlyFlipped(conv) ==
    LET img  == conv.src
        work == conv.dst.work
        o    == conv.dst.req.img
    IN  /\ Len(o.px) = Len(img.px)
        /\ \A i \in 1..Len(o.px) :
               /\ work[i][2] \in 0..255
               /\ o.px[i][2] = 255 - work[i][2]
               /\ o.px[i][1] = work[i][1]
               /\ o.px[i][3] = work[i][3]
               /\ img.mode \in {"RGB", "RGBA"} => SubSeq(work[i], 1, 3) = SubSeq(img.px[i], 1, 3)

AlphaKept(conv) ==
    \A i \in 1..Len(conv.src.px) :
        /\ Len(conv.dst.req.img.px[i]) = 4
        /\ conv.dst.req.img.px[i][4] = SourceAlpha(conv.src, i)

IsJpeg(path) == Lower(PathSuffix(path)) \in {".jpg", ".jpeg"}

\* C4, as claimed: on the standard path every output pixel has green' = 255 -
\* green with red and blue unchanged, and whenever the source carries alpha
\* the output alpha equals the source alpha.
C4_AlphaAlwaysKept ==
    last.outcome = "encoding" =>
        /\ GreenOnlyFlipped(last)
        /\ last.src.mode \in {"RGBA", "LA", "PA"} => AlphaKept(last)

\* C4, amended: on the standard path every output pixel has green' = 255 -
\* green with red and blue unchanged, and whenever the source carries alpha
\* and the output extension is not jpg/jpeg the output alpha equals the source
\* alpha; a jpg/jpeg output has no alpha channel.
C4_FlipKeepsOtherChannels ==
    last.outcome = "encoding" =>
        /\ GreenOnlyFlipped(last)
        /\ (last.src.mode \in {"RGBA", "LA", "PA"} /\ ~IsJpeg(last.out_path)) => AlphaKept(last)
        /\ IsJpeg(last.out_path) => \A i \in 1..Len(last.src.px) : Len(last.dst.req.img.px[i]) = 3

\* the end-to-end example: (128, 200, 64, 255) in a png becomes (128, 55, 64, 255)
C4_Witness ==
    /\ last.outcome = "encoding"
    /\ last.src.mode = "RGBA"
    /\ last.path_in = "t/a_normal_map.png"
    /\ last.out_path = "t/a_normal_map_DX.png"
    /\ last.src.px[1] = <<128, 200, 64, 255>>
    /\ last.dst.req.img.px[1] = <<128, 55, 64, 255>>

\* C5: the encoded output has 4 channels exactly when the source mode is RGBA,
\* LA or PA or the source declares transparency, and the output is not
\* jpg/jpeg; otherwise it has 3 channels. The working buffer always has 4.
C5_AlphaFromOriginalMode ==
    last.outcome = "encoding" =>
        LET four == /\ (last.src.mode \in {"RGBA", "LA", "PA"} \/ last.src.transparency # <<>>)
                    /\ ~IsJpeg(last.out_path)
            o    == last.dst.req.img
        IN  /\ o.mode = IF four THEN "RGBA" ELSE "RGB"
            /\ \A i \in 1..Len(o.px) : Len(o.px[i]) = IF four THEN 4 ELSE 3
            /\ \A i \in 1..Len(o.px) : Len(last.dst.work[i]) = 4

\* a grey source without alpha or transparency: RGBA working buffer, RGB output
C5_Witness ==
    /\ last.outcome = "encoding"
    /\ last.src.mode = "L"
    /\ last.src.transparency = <<>>
    /\ last.path_in = "t/a_normal_map.tga"
    /\ Len(last.dst.work[1]) = 4
    /\ last.dst.req.img.mode = "RGB"
    /\ Len(last.dst.req.img.px[1]) = 3

\* directory(input) / (stem(input) + suffix + extension(input)), in the
\* directory of the input and with the extension of the input
OutputPathRule(conv) ==
    /\ conv.out_path =
           JoinPath(PathParent(conv.path_in),
                    PathStem(conv.path_in) \o suffix \o PathSuffix(conv.path_in))
    /\ PathParent(conv.out_path) = PathParent(conv.path_in)
    /\ PathSuffix(conv.out_path) = PathSuffix(conv.path_in)
    /\ PathName(conv.out_path) = PathStem(conv.path_in) \o suffix \o PathSuffix(conv.path_in)

\* C6, as claimed: for every input path and every suffix, the call of
\* convert_image_inplace has the output path directory / (stem + suffix +
\* extension), in the input's directory and with the input's extension.
C6_EverySuffix == last.path_in # None => OutputPathRule(last)

\* C6, amended: for every input path and every suffix that holds no path
\* separator, on both paths, the output path is directory / (stem + suffix +
\* extension), in the input's directory and with the input's extension; every
\* file written is written there. (With a separator in the suffix with_name
\* raises ValueError and no output path exists.)
C6_OutputPathRule ==
    /\ (last.path_in # None /\ ~Contains(suffix, "/")) =>
           /\ last.route \in {"std", "exr"}
           /\ OutputPathRule(last)
    /\ \A i \in 1..Len(writes) :
           OutputPathRule([path_in |-> writes[i].src, out_path |-> writes[i].dst])
    /\ (last.path_in # None /\ Contains(suffix, "/")) => last.out_path = Raised /\ writes = <<>>

\* an EXR with an upper-case extension and a suffix holding a dot
C6_Witness ==
    /\ last.route = "exr"
    /\ last.outcome = "written"
    /\ suffix = ".v2"
    /\ last.path_in = "t/s/map_normal.EXR"
    /\ last.out_path = "t/s/map_normal.v2.EXR"
    /\ writes[Len(writes)].dst = "t/s/map_normal.v2.EXR"

\* the flip of every sample of the buffer, computed without the uint8 store
FlipExact(buf) == [i \in 1..Len(buf) |-> [buf[i] EXCEPT ![2] = 255 - buf[i][2]]]

\* C7: the 8-bit flip is an involution on samples in 0..255: one flip gives
\* 255 - g, two flips give back g, and 255 - g never leaves 0..255, so the
\* uint8 store never wraps.
C7_FlipInvolution ==
    pc = "flip" =>
        /\ \A i \in 1..Len(last.dst) : \A c \in 1..4 : last.dst[i][c] \in 0..255
        /\ \A i \in 1..Len(last.dst) :
               /\ FlipRaw(last.dst[i][2]) \in 0..255
               /\ FlipG(last.dst[i][2]) = FlipRaw(last.dst[i][2])
        /\ idx = 1 => last.dst = FlipExact(last.src)
        /\ idx = 2 => last.dst = last.src

\* green 200 flipped twice: 200 -> 55 -> 200
C7_Witness ==
    /\ pc = "flip"
    /\ idx = 2
    /\ last.src[1][2] = 200
    /\ last.dst[1][2] = 200

F32InUnit(x) == x.k = "num" /\ ~F32Less(x, F32Zero) /\ ~F32Less(F32One, x)

\* C8: on the EXR path the signed-range and the unsigned transform give the
\* same green value for every stored green value, that value lies in [0, 1],
\* and every other channel is written back unchanged.
C8_ExrFormulasAgree ==
    (pc = "exr" /\ last.outcome = "encoding") =>
        \A i \in 1..Len(last.src) :
            /\ last.dst[i][2] = ExrGreen(last.src[i][2], TRUE)
            /\ last.dst[i][2] = ExrGreen(last.src[i][2], FALSE)
            /\ F32InUnit(last.dst[i][2])
            /\ Len(last.dst[i]) = Len(last.src[i])
            /\ \A c \in 1..Len(last.src[i]) : c # 2 => last.dst[i][c] = last.src[i][c]

\* the allow-list and the naming heuristic, as the claim words them
MatchesClaim(p) ==
    /\ Lower(PathSuffix(p)) \in {".png", ".jpg", ".jpeg", ".tga", ".tif", ".tiff", ".bmp",
                                 ".webp", ".exr"}
    /\ Contains(Lower(PathName(p)), "normal")
    /\ Contains(Lower(PathName(p)), "map")

\* file p lies below directory d, at any depth
Below(p, d) == Len(p) > Len(d) + 1 /\ SubSeq(p, 1, Len(d)) = d /\ Chr(p, Len(d) + 1) = "/"

\* C9: discovery yields exactly the files that satisfy both predicates: a root
\* that is a file alone iff it matches; under a directory root every matching
\* descendant at any depth and no other file, each once; with no match the
\* list is empty, nothing is converted and nothing is raised.
C9_DiscoveryExact ==
    pc # "main" =>
        /\ Range(files) = IF in_path \in tree
                          THEN {p \in {in_path} : MatchesClaim(p)}
                          ELSE {p \in tree : Below(p, in_path) /\ MatchesClaim(p)}
        /\ Len(files) = Cardinality(Range(files))
        /\ files = <<>> <=> pc = "nofiles"
        /\ pc = "nofiles" => calls = <<>> /\ writes = <<>> /\ last = NoConversion

\* a directory root: the one matching file two levels down is found, the
\* non-matching file beside the root is not
C9_Witness ==
    /\ pc = "loop"
    /\ in_path = "t"
    /\ tree = {"t/rock_normal.png", "t/s/rock_normalmap.tga"}
    /\ files = <<"t/s/rock_normalmap.tga">>

\* C10: the list is complete before the first conversion and never changes
\* afterwards; the files are passed to the conversion one at a time in list
\* order, each at most once; no file is converted after the run has written it.
C10_OutputsNotReprocessed ==
    /\ pc = "main" => calls = <<>>
    /\ calls = SubSeq(files, 1, Len(calls))
    /\ \A i, j \in 1..Len(files) : files[i] = files[j] => i = j
    /\ \A w \in 1..Len(writes) : \A j \in 1..Len(calls) :
           (calls[j] = writes[w].dst) =>
               ~(\E k \in 1..(j - 1) : calls[k] = writes[w].src)

=============================================================================
